---- MODULE Spec2Model ----
(***************************************************************************)
(* gologger: the leveled logger with the FileLog option (package logger,   *)
(* src/unnamed/part_001), its formatter and its JSON-array file sink; the  *)
(* variant with the SaveToFile option (src/unnamed/part_002) and the       *)
(* variants with the newline-delimited sink (src/main.go, part_004).       *)
(*                                                                         *)
(* A file is a sequence of byte tokens.  Structural bytes ('[', ']', '{',  *)
(* '}', ',', newline) are one token each; an indentation run, a quoted key  *)
(* with its colon and a quoted string value are one token each, because    *)
(* the code never cuts inside them: saveToFile only addresses the last one *)
(* or two bytes of the file.                                               *)
(***************************************************************************)
EXTENDS Integers, Sequences, FiniteSets, TLC

VARIABLES
    FileLog,     \* Logger.FileLog, the default file logging setting
    fs,          \* the files: path -> [exists, data]
    dirs,        \* the directories that exist
    now,         \* the clock: the latest instant time.Now() has returned
    pc,          \* where the calling program is
    last,        \* what the latest operation did (its inputs and results)
    okRecs,      \* per path, the records whose append returned nil, in call order
    clean,       \* per path: no file at the start and no failed append touched it
    exitStatus,  \* the status the process ended with, -1 while it runs
    panicValue,  \* the value of the panic being raised, "" when there is none
    lastSet,     \* the value given to the latest SetDefaultFileLog, false before any
    ncalls,      \* the number of operations done so far
    DefaultSaveToFile,  \* Logger.DefaultSaveToFile of the variant with the SaveToFile option
    DefaultLogPath,     \* Logger.DefaultLogPath of that variant
    writers      \* per concurrent caller of saveToFile: where it is and what it holds

vars == <<FileLog, fs, dirs, now, pc, last, okRecs, clean, exitStatus, panicValue, lastSet, ncalls,
          DefaultSaveToFile, DefaultLogPath, writers>>

----------------------------------------------------------------------------
(* Bounds *)

MaxCalls == 2       \* calls of the logger's entry points per run
MaxAppends == 3     \* calls of saveToFile per run when it is exercised alone
MaxOps == 3         \* operations per run on the default setting
MaxPartial == 1     \* tokens a failing write may still have written
MaxTick == 2        \* the clock runs over the instants 0, TickStep, .., MaxTick * TickStep
MaxLines == 3       \* operations per run on the newline-delimited sink
MaxOps2 == 3        \* operations per run on the logger with the SaveToFile option
MaxRaceCalls == 1   \* calls of saveToFile per concurrent writer

----------------------------------------------------------------------------
(* Constants of the program *)

INFO == "INFO"
WARN == "WARN"
FATAL == "FATAL"
PANIC == "PANIC"
Levels == {INFO, WARN, FATAL, PANIC}

DefaultPath == "./log.json"
CustomPath == "./logs/custom_default.json"
InvalidPath == "/invalid/path/test.json"
Paths == {DefaultPath, CustomPath, InvalidPath}

\* filepath.Dir of the paths in use
Dir(path) ==
    CASE path = DefaultPath -> "."
      [] path = CustomPath -> "./logs"
      [] OTHER -> "/invalid/path"

\* os.MkdirAll succeeds on every directory but the one under a root the
\* process may not write to
Creatable(dir) == dir # "/invalid/path"

----------------------------------------------------------------------------
(* Byte tokens *)

Tok(t, v) == [t |-> t, v |-> v]
P(c) == Tok("p", c)        \* one structural byte
WS(s) == Tok("ws", s)      \* a run of spaces
Key(k) == Tok("key", k)    \* "k":
Str(s) == Tok("str", s)    \* "s"
NL == P("\n")

Min(a, b) == IF a < b THEN a ELSE b

----------------------------------------------------------------------------
(* logToJSON and its serialisation *)

MarshalFieldsNoOmit(j) ==
    << <<"time", j.ClosingTime>>, <<"level", j.Level>>, <<"process", j.Process>>,
       <<"duration", j.Duration>>, <<"user", j.User>>, <<"message", j.Message>> >>

\* the fields json.Marshal writes for a logToJSON value, in struct order;
\* omitempty drops an empty process, duration or user
MarshalFields(j) ==
    << <<"time", j.ClosingTime>>, <<"level", j.Level>> >>
    \o (IF j.Process # "" THEN << <<"process", j.Process>> >> ELSE << >>)
    \o (IF j.Duration # "" THEN << <<"duration", j.Duration>> >> ELSE << >>)
    \o (IF j.User # "" THEN << <<"user", j.User>> >> ELSE << >>)
    \o << <<"message", j.Message>> >>

RECURSIVE IndentFields(_, _)
IndentFields(fields, i) ==
    IF i > Len(fields) THEN << >>
    ELSE <<NL, WS("    "), Key(fields[i][1]), WS(" "), Str(fields[i][2])>>
         \o (IF i < Len(fields) THEN <<P(",")>> ELSE << >>)
         \o IndentFields(fields, i + 1)

\* json.MarshalIndent(jsoner, "  ", "  ")
MarshalIndent(j) ==
    <<P("{")>> \o IndentFields(MarshalFields(j), 1) \o <<NL, WS("  "), P("}")>>

----------------------------------------------------------------------------
(* Reading a file back as a JSON array of objects (the reader's side: what  *)
(* "a well-formed JSON array holding these records" means)                  *)

IsSpace(tok) == tok.t = "ws" \/ tok = NL

ParseFail == [ok |-> FALSE, recs |-> << >>]

RECURSIVE ParseFields(_, _, _)
ParseFields(t, i, acc) ==
    IF i + 2 > Len(t) \/ t[i].t # "key" \/ t[i + 1].t # "str"
    THEN [ok |-> FALSE, next |-> i, fields |-> acc]
    ELSE LET acc2 == Append(acc, <<t[i].v, t[i + 1].v>>) IN
         IF t[i + 2] = P("}") THEN [ok |-> TRUE, next |-> i + 3, fields |-> acc2]
         ELSE IF t[i + 2] = P(",") THEN ParseFields(t, i + 3, acc2)
         ELSE [ok |-> FALSE, next |-> i, fields |-> acc]

RECURSIVE ParseObjs(_, _, _)
ParseObjs(t, i, acc) ==
    IF i + 1 > Len(t) \/ t[i] # P("{") THEN ParseFail
    ELSE LET f == IF t[i + 1] = P("}")
                  THEN [ok |-> TRUE, next |-> i + 2, fields |-> << >>]
                  ELSE ParseFields(t, i + 1, << >>)
         IN IF ~f.ok \/ f.next > Len(t) THEN ParseFail
            ELSE IF t[f.next] = P(",") THEN ParseObjs(t, f.next + 1, Append(acc, f.fields))
            ELSE IF t[f.next] = P("]") /\ f.next = Len(t)
                 THEN [ok |-> TRUE, recs |-> Append(acc, f.fields)]
            ELSE ParseFail

ParseArray(data) ==
    LET t == SelectSeq(data, LAMBDA tok : ~IsSpace(tok)) IN
    IF Len(t) < 2 \/ t[1] # P("[") THEN ParseFail
    ELSE IF t = <<P("["), P("]")>> THEN [ok |-> TRUE, recs |-> << >>]
    ELSE ParseObjs(t, 2, << >>)

----------------------------------------------------------------------------
(* The file sink *)

NoFile == [exists |-> FALSE, data |-> << >>]
EmptyFile == [exists |-> TRUE, data |-> << >>]

\* fileExists
fileExists(f, path) == f[path].exists

\* what the environment may do to one saveToFile: nothing, or make one of its
\* system calls fail; a failing write may have written the first n tokens
Injections ==
    {[at |-> s, n |-> 0] : s \in {"none", "mkdir", "create", "open", "stat", "truncate", "seek"}}
    \cup {[at |-> "write", n |-> k] : k \in 0..MaxPartial}
NoInjection == [at |-> "none", n |-> 0]

\* file.WriteString(out) at offset off of the open file
WriteAt(f, path, off, out) ==
    [f EXCEPT ![path].data = SubSeq(@, 1, off) \o out \o SubSeq(@, off + Len(out) + 1, Len(@))]

TruncateKeepsAll(f, path, size) == f

\* file.Truncate(size)
Truncate(f, path, size) == [f EXCEPT ![path].data = SubSeq(@, 1, size)]

Started(out, n) == SubSeq(out, 1, Min(n, Len(out) - 1))

SaveResult(f, d, err, ops) == [fs |-> f, dirs |-> d, err |-> err, ops |-> ops]

\* the write after Truncate(size - 1) and Seek(-1, io.SeekEnd): it starts on the
\* byte before the removed ']' and so replaces the newline that preceded it
AppendWrite(f, path, size, out) == WriteAt(f, path, size - 2, out)

InitialTextLeadingComma(jsonData) == <<P("["), P(","), NL, WS("  ")>> \o jsonData \o <<NL, P("]")>>

\* the first record of an empty file
InitialText(jsonData) == <<P("["), NL, WS("  ")>> \o jsonData \o <<NL, P("]")>>

AppendTextNoComma(jsonData) == <<NL, WS("  ")>> \o jsonData \o <<NL, P("]")>>

AppendText(jsonData) == <<P(","), NL, WS("  ")>> \o jsonData \o <<NL, P("]")>>

TakesInitialBranch(size) == size = 0

\* saveToFile(jsoner, filePath): the files and directories it leaves, the error
\* it returns ("" for nil) and the system calls it made
SaveToFile(f, d, jsoner, path, inj) ==
    LET dir == Dir(path) IN
    IF ~Creatable(dir) \/ inj.at = "mkdir"
    THEN SaveResult(f, d, "directory creation failed, mkdir " \o dir \o ": permission denied",
                    <<"MkdirAll">>)
    ELSE
    LET d1 == d \cup {dir}
        existed == fileExists(f, path)
        ops1 == IF existed THEN <<"MkdirAll">> ELSE <<"MkdirAll", "Create">>
    IN
    IF ~existed /\ inj.at = "create"
    THEN SaveResult(f, d1, "file creation failed, open " \o path \o ": permission denied", ops1)
    ELSE
    LET f1 == IF existed THEN f ELSE [f EXCEPT ![path] = EmptyFile]
        ops2 == Append(ops1, "OpenFile")
    IN
    IF inj.at = "open"
    THEN SaveResult(f1, d1, "file open failed, open " \o path \o ": too many open files", ops2)
    ELSE
    LET ops3 == Append(ops2, "Stat") IN
    IF inj.at = "stat"
    THEN SaveResult(f1, d1, "file stat failed, stat " \o path \o ": input/output error", ops3)
    ELSE
    LET size == Len(f1[path].data)
        jsonData == MarshalIndent(jsoner)
    IN
    IF TakesInitialBranch(size)
    THEN LET out == InitialText(jsonData)
             ops4 == Append(ops3, "WriteString")
         IN IF inj.at = "write"
            THEN SaveResult(WriteAt(f1, path, 0, Started(out, inj.n)), d1,
                            "initial write failed, write " \o path \o ": no space left on device", ops4)
            ELSE SaveResult(WriteAt(f1, path, 0, out), d1, "", ops4)
    ELSE
    LET ops4 == Append(ops3, "Truncate") IN
    IF inj.at = "truncate"
    THEN SaveResult(f1, d1, "truncate failed, truncate " \o path \o ": input/output error", ops4)
    ELSE
    LET f2 == Truncate(f1, path, size - 1)
        ops5 == Append(ops4, "Seek")
    IN
    \* Seek(-1, io.SeekEnd) on a file of length 0 asks for a negative offset
    IF size - 2 < 0 \/ inj.at = "seek"
    THEN SaveResult(f2, d1, "seek failed, seek " \o path \o ": invalid argument", ops5)
    ELSE
    LET out == AppendText(jsonData)
        ops6 == Append(ops5, "WriteString")
    IN IF inj.at = "write"
       THEN SaveResult(AppendWrite(f2, path, size, Started(out, inj.n)), d1,
                       "append failed, write " \o path \o ": no space left on device", ops6)
       ELSE SaveResult(AppendWrite(f2, path, size, out), d1, "", ops6)

----------------------------------------------------------------------------
(* Time.  Instants are microseconds since the program started.             *)

TickStep == 1000500    \* the clock is read at multiples of this many microseconds
UsPerMs == 1000        \* Duration.Milliseconds() counts whole milliseconds
UsPerSec == 1000000    \* the layout "2006-01-02 15:04:05" keeps whole seconds

Instants == {k * TickStep : k \in 0..MaxTick}

\* a time.Time: the zero value, or an instant
ZeroTime == [zero |-> TRUE, at |-> 0]
At(t) == [zero |-> FALSE, at |-> t]

MillisecondsFloor(d) == d \div UsPerMs

\* Duration.Milliseconds(): integer division, which in Go truncates toward zero
Milliseconds(d) == IF d >= 0 THEN d \div UsPerMs ELSE -((-d) \div UsPerMs)

\* fmt.Sprintf("%d ms", currentTime.Sub(opts.StartTime).Milliseconds())
DurationText(currentTime, startTime) == ToString(Milliseconds(currentTime - startTime)) \o " ms"

\* t.Format("2006-01-02 15:04:05"): the instant cut to its second
FormatTime(t) == "T+" \o ToString(t \div UsPerSec) \o "s"

----------------------------------------------------------------------------
(* The FileLog setting: an `any` holding a bool, a string, nil or something *)
(* else (an int)                                                            *)

BoolV(b) == [t |-> "bool", b |-> b, s |-> ""]
StrV(s) == [t |-> "string", b |-> FALSE, s |-> s]
NilV == [t |-> "nil", b |-> FALSE, s |-> ""]
IntV == [t |-> "int", b |-> FALSE, s |-> ""]

Settings == {BoolV(FALSE), BoolV(TRUE), StrV(""), StrV(CustomPath), StrV(InvalidPath), NilV, IntV}

\* the %T of a setting
TypeName(v) == IF v.t = "nil" THEN "<nil>" ELSE v.t

checkSaveLogOptionEmptyIsDefault(fileLogSetting) ==
    CASE fileLogSetting.t = "bool" ->
           [shouldSave |-> fileLogSetting.b, path |-> DefaultPath, err |-> ""]
      [] fileLogSetting.t = "string" ->
           [shouldSave |-> TRUE,
            path |-> IF fileLogSetting.s # "" THEN fileLogSetting.s ELSE DefaultPath, err |-> ""]
      [] OTHER ->
           [shouldSave |-> FALSE, path |-> "",
            err |-> "log will not be saved, invalid file log setting type: "
                    \o TypeName(fileLogSetting) \o ", expected bool or string"]

\* checkSaveLogOption
checkSaveLogOption(fileLogSetting) ==
    CASE fileLogSetting.t = "bool" ->
           [shouldSave |-> fileLogSetting.b, path |-> DefaultPath, err |-> ""]
      [] fileLogSetting.t = "string" ->
           IF fileLogSetting.s # ""
           THEN [shouldSave |-> TRUE, path |-> fileLogSetting.s, err |-> ""]
           ELSE [shouldSave |-> FALSE, path |-> DefaultPath, err |-> ""]
      [] OTHER ->
           [shouldSave |-> FALSE, path |-> "",
            err |-> "log will not be saved, invalid file log setting type: "
                    \o TypeName(fileLogSetting) \o ", expected bool or string"]

----------------------------------------------------------------------------
(* LogOptions and the formatter                                             *)

LogOptions(startTime, process, user, fileLog) ==
    [StartTime |-> startTime, Process |-> process, User |-> user, FileLog |-> fileLog]

\* var opts LogOptions
ZeroOptions == LogOptions(ZeroTime, "", "", NilV)

\* options ...LogOptions: the first one when there is one
OptsOf(options) == IF Len(options) > 0 THEN options[1] ELSE ZeroOptions

EffectiveSettingDefaultOnly(loggerFileLog, opts) == loggerFileLog

\* fileLogSetting: the option of the call when it is set, the default otherwise
EffectiveSetting(loggerFileLog, opts) ==
    IF opts.FileLog # NilV THEN opts.FileLog ELSE loggerFileLog

LevelPart(level) == " [" \o level \o "]"

FormatPartsUserFirst(level, message, opts, currentTime, closingTime) ==
    LET duration == IF opts.StartTime.zero THEN "" ELSE DurationText(currentTime, opts.StartTime.at) IN
    [logParts |-> <<LevelPart(level)>>
                  \o (IF opts.User # "" THEN <<opts.User>> ELSE << >>)
                  \o (IF opts.Process # "" THEN <<opts.Process>> ELSE << >>)
                  \o (IF ~opts.StartTime.zero THEN <<duration>> ELSE << >>)
                  \o <<message>>,
     jsoner |-> [ClosingTime |-> FormatTime(closingTime), Level |-> level, Process |-> opts.Process,
                 Duration |-> duration, User |-> opts.User, Message |-> message]]

\* logMessage up to the closing time: the display parts and the record
FormatParts(level, message, opts, currentTime, closingTime) ==
    LET duration == IF opts.StartTime.zero THEN "" ELSE DurationText(currentTime, opts.StartTime.at) IN
    [logParts |-> <<LevelPart(level)>>
                  \o (IF opts.Process # "" THEN <<opts.Process>> ELSE << >>)
                  \o (IF ~opts.StartTime.zero THEN <<duration>> ELSE << >>)
                  \o (IF opts.User # "" THEN <<opts.User>> ELSE << >>)
                  \o <<message>>,
     jsoner |-> [ClosingTime |-> FormatTime(closingTime), Level |-> level, Process |-> opts.Process,
                 Duration |-> duration, User |-> opts.User, Message |-> message]]

RECURSIVE Join(_, _)
\* strings.Join(parts, sep)
Join(parts, sep) ==
    IF Len(parts) = 0 THEN ""
    ELSE IF Len(parts) = 1 THEN parts[1]
    ELSE parts[1] \o sep \o Join(Tail(parts), sep)

\* the markers of the final line (the source writes a check mark and an x)
CheckMark == " (ok)"
CrossMark == " x"

\* s.FinalMSG
FinalMSG(closingTime, mark, logParts) ==
    [time |-> FormatTime(closingTime), mark |-> mark, parts |-> logParts,
     text |-> FormatTime(closingTime) \o mark \o Join(logParts, " | ") \o "\n"]

ErrorPartOpaque(err) == "Failed to save log"

\* fmt.Sprintf("Error: %v", err)
ErrorPart(err) == "Error: " \o err

DisplayedLevelNoDowngrade(level) == level

\* the level of a call whose append failed
DisplayedLevelOnFailure(level) == IF level = INFO THEN WARN ELSE level

FinalMarkAlwaysCheck(failed) == CheckMark

\* the marker of the final line: the x of the failure branch, the check mark
\* of the success branch and of the branch that saves nothing
FinalMark(failed) == IF failed THEN CrossMark ELSE CheckMark

JsonerDowngradedFirst(jsoner, level) == [jsoner EXCEPT !.Level = DisplayedLevelOnFailure(level)]

\* the record handed to saveToFile: the call comes before the statement that
\* rewrites jsoner.Level, so the record still carries the level of the call
JsonerAtSave(jsoner, level) == jsoner

\* logMessage: everything it computes and leaves behind
LogMessage(loggerFileLog, f, d, level, message, options, currentTime, closingTime, inj) ==
    LET opts == OptsOf(options)
        fileLogSetting == EffectiveSetting(loggerFileLog, opts)
        fmt == FormatParts(level, message, opts, currentTime, closingTime)
        chk == checkSaveLogOption(fileLogSetting)
        parts1 == IF chk.err # "" THEN Append(fmt.logParts, ErrorPart(chk.err)) ELSE fmt.logParts
        toSave == JsonerAtSave(fmt.jsoner, level)
        sv == IF chk.shouldSave THEN SaveToFile(f, d, toSave, chk.path, inj)
              ELSE SaveResult(f, d, "", << >>)
        failed == chk.shouldSave /\ sv.err # ""
        parts2 == IF failed
                  THEN Append([parts1 EXCEPT ![1] = LevelPart(DisplayedLevelOnFailure(level))],
                              ErrorPart(sv.err))
                  ELSE IF chk.shouldSave THEN Append(parts1, "Log saved!")
                  ELSE parts1
    IN [opts |-> opts,
        setting |-> fileLogSetting,
        shouldSave |-> chk.shouldSave,
        path |-> chk.path,
        checkErr |-> chk.err,
        saves |-> IF chk.shouldSave THEN <<sv.ops>> ELSE << >>,
        saveErr |-> sv.err,
        pre |-> IF chk.shouldSave THEN f[chk.path] ELSE NoFile,
        saved |-> toSave,
        jsoner |-> IF failed THEN [fmt.jsoner EXCEPT !.Level = DisplayedLevelOnFailure(level)]
                   ELSE fmt.jsoner,
        logParts |-> parts2,
        \* the markers s.FinalMSG is given, in order: the x of an invalid setting
        \* is assigned first and replaced by the marker of the branch taken after
        marks |-> (IF chk.err # "" THEN <<CrossMark>> ELSE << >>) \o <<FinalMark(failed)>>,
        FinalMSG |-> FinalMSG(closingTime, FinalMark(failed), parts2),
        currentTime |-> currentTime,
        closingTime |-> closingTime,
        FileLog |-> loggerFileLog,
        fs |-> sv.fs,
        dirs |-> sv.dirs]

----------------------------------------------------------------------------
(* The inputs the calls are drawn from                                      *)

Messages == {"a", "b"}

FullOptions(fileLog) == LogOptions(At(0), "MainProcess", "TestUser", fileLog)

\* the argument lists of the calls: no options, or one LogOptions value
CallOptions ==
    {<< >>}
    \cup {<<LogOptions(ZeroTime, "", "", fl)>> :
             fl \in {BoolV(FALSE), BoolV(TRUE), StrV(CustomPath), StrV(InvalidPath)}}
    \cup {<<FullOptions(StrV(CustomPath))>>}

\* the argument lists that differ in the FileLog option alone
SettingOptions == {<< >>} \cup {<<LogOptions(ZeroTime, "", "", fl)>> : fl \in Settings}

CallMessages == {"a"}

\* the records handed to saveToFile when it is exercised alone
SinkRecords ==
    {FormatParts(INFO, m, o, 0, 0).jsoner : m \in Messages, o \in {ZeroOptions, FullOptions(NilV)}}

----------------------------------------------------------------------------
(* Initial states                                                           *)

\* a file that exists lies in a directory that exists; nothing exists under
\* the unwritable root
InitFiles ==
    {f \in [Paths -> {NoFile, EmptyFile}] : ~f[InvalidPath].exists}

\* the concurrent callers of saveToFile, all on one path
Writers == {"w1", "w2"}

RacePath == DefaultPath

\* the record writer w appends: its message names the writer
RaceRecords(w) == {FormatParts(INFO, w, o, 0, 0).jsoner : o \in {ZeroOptions, FullOptions(NilV)}}

\* a writer between two calls of saveToFile
IdleWriter(jsoner, calls, err) ==
    [pc |-> "idle", size |-> 0, off |-> 0, jsoner |-> jsoner, calls |-> calls, err |-> err]

InitWriters == [w \in Writers |-> IdleWriter(CHOOSE j \in RaceRecords(w) : j.Process = "", 0, "")]

\* New(), with the files the program finds
InitWith(files) ==
    /\ FileLog = BoolV(FALSE)
    /\ fs \in files
    /\ dirs = {"."} \cup {Dir(p) : p \in {q \in Paths : fs[q].exists}}
    /\ now = 0
    /\ pc = "run"
    /\ last = [kind |-> "none"]
    /\ okRecs = [p \in Paths |-> << >>]
    /\ clean = [p \in Paths |-> ~fs[p].exists]
    /\ exitStatus = -1
    /\ panicValue = ""
    /\ lastSet = BoolV(FALSE)
    /\ ncalls = 0
    /\ DefaultSaveToFile = FALSE
    /\ DefaultLogPath = DefaultPath
    /\ writers = InitWriters

\* a fresh working directory
Init == InitWith({[p \in Paths |-> NoFile]})

\* a working directory in which log files may have been created empty
InitSink == InitWith(InitFiles)

----------------------------------------------------------------------------
(* Bookkeeping shared by the actions: the history of each path              *)

OkRecsAfter(attempted, path, err, jsoner) ==
    IF attempted /\ err = ""
    THEN [okRecs EXCEPT ![path] = Append(@, MarshalFields(jsoner))]
    ELSE okRecs

CleanAfter(attempted, path, err, f) ==
    IF attempted /\ err # "" /\ f[path].exists
    THEN [clean EXCEPT ![path] = FALSE]
    ELSE clean

----------------------------------------------------------------------------
(* saveToFile on its own                                                    *)

Save ==
    /\ pc = "run"
    /\ ncalls < MaxAppends
    /\ \E jsoner \in SinkRecords, path \in Paths, inj \in Injections :
         \E r \in {SaveToFile(fs, dirs, jsoner, path, inj)} :
         /\ fs' = r.fs
         /\ dirs' = r.dirs
         /\ okRecs' = OkRecsAfter(TRUE, path, r.err, jsoner)
         /\ clean' = CleanAfter(TRUE, path, r.err, r.fs)
         /\ last' = [kind |-> "saveToFile", path |-> path, pre |-> fs[path], inj |-> inj,
                     saved |-> jsoner, saveErr |-> r.err, saves |-> <<r.ops>>]
    /\ ncalls' = ncalls + 1
    /\ UNCHANGED <<FileLog, now, pc, exitStatus, panicValue, lastSet,
                   DefaultSaveToFile, DefaultLogPath, writers>>

NextSink == Save

SpecSink == InitSink /\ [][NextSink]_vars

----------------------------------------------------------------------------
(* The entry points of the logger                                           *)

AfterLogReturns(level) == "run"

\* where the entry point stands when logMessage has returned
AfterLog(level) ==
    CASE level = FATAL -> "fatal_logged"
      [] level = PANIC -> "panic_logged"
      [] OTHER -> "run"

PanicValueOfLevel(message) == PANIC

\* panic(message)
PanicValueOf(message) == message

LastOf(kind, level, message, r, recovered) ==
    [kind |-> kind, level |-> level, message |-> message, recovered |-> recovered,
     opts |-> r.opts, setting |-> r.setting, shouldSave |-> r.shouldSave, path |-> r.path,
     checkErr |-> r.checkErr, saves |-> r.saves, saveErr |-> r.saveErr, pre |-> r.pre,
     saved |-> r.saved, jsoner |-> r.jsoner, logParts |-> r.logParts, marks |-> r.marks,
     FinalMSG |-> r.FinalMSG,
     currentTime |-> r.currentTime, closingTime |-> r.closingTime, default |-> FileLog]

\* one call of logMessage from the entry point `kind`, its inputs drawn from
\* the given sets
Log(kind, level, recovered, messages, optionLists, injections, clock, budget) ==
    /\ ncalls < budget
    /\ \E message \in messages, options \in optionLists, inj \in injections,
          currentTime \in clock, closingTime \in clock :
         /\ now <= currentTime
         /\ currentTime <= closingTime
         /\ (inj = NoInjection \/ checkSaveLogOption(EffectiveSetting(FileLog, OptsOf(options))).shouldSave)
         /\ \E r \in {LogMessage(FileLog, fs, dirs, level, message, options,
                                 currentTime, closingTime, inj)} :
               /\ FileLog' = r.FileLog
               /\ fs' = r.fs
               /\ dirs' = r.dirs
               /\ okRecs' = OkRecsAfter(r.shouldSave, r.path, r.saveErr, r.saved)
               /\ clean' = CleanAfter(r.shouldSave, r.path, r.saveErr, r.fs)
               /\ last' = LastOf(kind, level, message, r, recovered)
               /\ now' = closingTime
    /\ ncalls' = ncalls + 1
    /\ pc' = AfterLog(level)
    /\ lastSet' = lastSet
    /\ UNCHANGED <<DefaultSaveToFile, DefaultLogPath, writers>>

Info ==
    /\ pc = "run"
    /\ Log("Info", INFO, "", CallMessages, CallOptions, Injections, {now}, MaxCalls)
    /\ UNCHANGED <<exitStatus, panicValue>>

Warn ==
    /\ pc = "run"
    /\ Log("Warn", WARN, "", CallMessages, CallOptions, Injections, {now}, MaxCalls)
    /\ UNCHANGED <<exitStatus, panicValue>>

\* Fatal: logMessage, then os.Exit(1)
Fatal ==
    /\ pc = "run"
    /\ Log("Fatal", FATAL, "", CallMessages, CallOptions, Injections, {now}, MaxCalls)
    /\ UNCHANGED <<exitStatus, panicValue>>

FatalExit ==
    /\ pc = "fatal_logged"
    /\ pc' = "exited"
    /\ exitStatus' = 1
    /\ UNCHANGED <<FileLog, fs, dirs, now, last, okRecs, clean, panicValue, lastSet, ncalls,
                   DefaultSaveToFile, DefaultLogPath, writers>>

\* Panic: logMessage, then panic(message)
Panic ==
    /\ pc = "run"
    /\ Log("Panic", PANIC, "", Messages, CallOptions, Injections, {now}, MaxCalls)
    /\ UNCHANGED <<exitStatus, panicValue>>

PanicRaise ==
    /\ pc = "panic_logged"
    /\ pc' = "panicking"
    /\ panicValue' = PanicValueOf(last.message)
    /\ UNCHANGED <<FileLog, fs, dirs, now, last, okRecs, clean, exitStatus, lastSet, ncalls,
                   DefaultSaveToFile, DefaultLogPath, writers>>

\* a deferred function of the caller recovers the panic and logs with the same
\* logger (TestWithPanic)
Recover ==
    /\ pc = "panicking"
    /\ Log("Recover", INFO, panicValue, CallMessages, CallOptions, Injections, {now}, MaxCalls + 1)
    /\ panicValue' = ""
    /\ UNCHANGED exitStatus

\* no deferred function recovers: the runtime ends the process with status 2
Crash ==
    /\ pc = "panicking"
    /\ pc' = "exited"
    /\ exitStatus' = 2
    /\ UNCHANGED <<FileLog, fs, dirs, now, last, okRecs, clean, panicValue, lastSet, ncalls,
                   DefaultSaveToFile, DefaultLogPath, writers>>

\* SetDefaultFileLog(fileLog)
SetDefault(budget) ==
    /\ pc = "run"
    /\ ncalls < budget
    /\ \E fileLog \in Settings :
         /\ FileLog' = fileLog
         /\ lastSet' = fileLog
         /\ last' = [kind |-> "SetDefaultFileLog", value |-> fileLog]
    /\ ncalls' = ncalls + 1
    /\ UNCHANGED <<fs, dirs, now, pc, okRecs, clean, exitStatus, panicValue,
                   DefaultSaveToFile, DefaultLogPath, writers>>

SetDefaultFileLog == SetDefault(MaxCalls)

Next ==
    \/ Info
    \/ Warn
    \/ Fatal
    \/ FatalExit
    \/ Panic
    \/ PanicRaise
    \/ Recover
    \/ Crash
    \/ SetDefaultFileLog

Spec == Init /\ [][Next]_vars

----------------------------------------------------------------------------
(* One call with every combination of options and clock readings: the      *)
(* formatter as a function of its inputs                                    *)

FormatOptions ==
    {<< >>}
    \cup {<<LogOptions(st, p, u, fl)>> :
             st \in {ZeroTime} \cup {At(t) : t \in Instants},
             p \in {"", "MainProcess"}, u \in {"", "TestUser"},
             fl \in {NilV, BoolV(TRUE), StrV(InvalidPath)}}

FormatMessages == Messages \cup {""}

InfoOnce ==
    /\ pc = "run"
    /\ Log("Info", INFO, "", FormatMessages, FormatOptions, {NoInjection}, Instants, 1)
    /\ UNCHANGED <<exitStatus, panicValue>>

WarnOnce ==
    /\ pc = "run"
    /\ Log("Warn", WARN, "", FormatMessages, FormatOptions, {NoInjection}, Instants, 1)
    /\ UNCHANGED <<exitStatus, panicValue>>

FatalOnce ==
    /\ pc = "run"
    /\ Log("Fatal", FATAL, "", FormatMessages, FormatOptions, {NoInjection}, Instants, 1)
    /\ UNCHANGED <<exitStatus, panicValue>>

PanicOnce ==
    /\ pc = "run"
    /\ Log("Panic", PANIC, "", FormatMessages, FormatOptions, {NoInjection}, Instants, 1)
    /\ UNCHANGED <<exitStatus, panicValue>>

NextFormat ==
    \/ InfoOnce
    \/ WarnOnce
    \/ FatalOnce
    \/ PanicOnce

SpecFormat == Init /\ [][NextFormat]_vars

----------------------------------------------------------------------------
(* Sequences of SetDefaultFileLog and calls that differ in FileLog alone    *)

SetDefaultOp == SetDefault(MaxOps)

InfoWithSetting ==
    /\ pc = "run"
    /\ Log("Info", INFO, "", CallMessages, SettingOptions, {NoInjection}, {now}, MaxOps)
    /\ UNCHANGED <<exitStatus, panicValue>>

NextDefault ==
    \/ SetDefaultOp
    \/ InfoWithSetting

SpecDefault == Init /\ [][NextDefault]_vars

----------------------------------------------------------------------------
(* The newline-delimited sink (src/main.go and src/unnamed/part_004): every *)
(* record is one line of compact JSON at the end of the file.               *)

RECURSIVE CompactFields(_, _)
CompactFields(fields, i) ==
    IF i > Len(fields) THEN << >>
    ELSE <<Key(fields[i][1]), Str(fields[i][2])>>
         \o (IF i < Len(fields) THEN <<P(",")>> ELSE << >>)
         \o CompactFields(fields, i + 1)

\* json.Marshal(jsoner)
Marshal(j) == <<P("{")>> \o CompactFields(MarshalFields(j), 1) \o <<P("}")>>

LineTextNoNewline(jsonData) == jsonData

\* string(jsonData) + "\n"
LineText(jsonData) == Append(jsonData, NL)

\* a write to a file opened with os.O_APPEND goes to the end of the file
WriteAppend(f, path, out) == [f EXCEPT ![path].data = @ \o out]

\* main.go writes "log.json" in the working directory, the file "./log.json"
MainLogPath == DefaultPath

\* the system calls of the newline-delimited saveToFile that may fail
LineInjections == {inj \in Injections : inj.at \in {"none", "mkdir", "open", "write"}}

\* saveToFile of part_004 (mkdirFirst) and of main.go (no MkdirAll): the errors
\* are returned as the system call gave them
SaveLine(f, d, jsoner, path, inj, mkdirFirst) ==
    LET dir == Dir(path) IN
    IF mkdirFirst /\ (~Creatable(dir) \/ inj.at = "mkdir")
    THEN SaveResult(f, d, "mkdir " \o dir \o ": permission denied", <<"MkdirAll">>)
    ELSE
    LET d1 == IF mkdirFirst THEN d \cup {dir} ELSE d
        ops1 == IF mkdirFirst THEN <<"MkdirAll", "OpenFile">> ELSE <<"OpenFile">>
    IN
    IF inj.at = "open"
    THEN SaveResult(f, d1, "open " \o path \o ": too many open files", ops1)
    ELSE
    \* os.O_CREATE: the file is created when it is absent
    LET f1 == IF fileExists(f, path) THEN f ELSE [f EXCEPT ![path] = EmptyFile]
        out == LineText(Marshal(jsoner))
        ops2 == Append(ops1, "WriteString")
    IN IF inj.at = "write"
       THEN SaveResult(WriteAppend(f1, path, Started(out, inj.n)), d1,
                       "write " \o path \o ": no space left on device", ops2)
       ELSE SaveResult(WriteAppend(f1, path, out), d1, "", ops2)

\* logMessage of main.go: the final line is set and shown, then the record is
\* saved and the error saveToFile returns is dropped
LogMessageMain(f, d, level, message, options, currentTime, closingTime, inj) ==
    LET opts == OptsOf(options)
        fmt == FormatParts(level, message, opts, currentTime, closingTime)
        sv == SaveLine(f, d, fmt.jsoner, MainLogPath, inj, FALSE)
    IN [opts |-> opts,
        path |-> MainLogPath,
        pre |-> f[MainLogPath],
        saved |-> fmt.jsoner,
        saves |-> <<sv.ops>>,
        saveErr |-> sv.err,
        FinalMSG |-> FinalMSG(closingTime, CheckMark, fmt.logParts),
        fs |-> sv.fs,
        dirs |-> sv.dirs]

\* the argument lists of the calls of main.go
MainOptions == {<< >>, <<FullOptions(NilV)>>}

\* one call of an entry point of main.go
LogMain(kind, level) ==
    /\ pc = "run"
    /\ ncalls < MaxLines
    /\ \E message \in CallMessages, options \in MainOptions,
          inj \in {i \in LineInjections : i.at # "mkdir"} :
         \E r \in {LogMessageMain(fs, dirs, level, message, options, now, now, inj)} :
            /\ fs' = r.fs
            /\ dirs' = r.dirs
            /\ okRecs' = OkRecsAfter(TRUE, r.path, r.saveErr, r.saved)
            /\ clean' = CleanAfter(TRUE, r.path, r.saveErr, r.fs)
            /\ last' = [kind |-> kind, level |-> level, message |-> message, path |-> r.path,
                        pre |-> r.pre, inj |-> inj, saved |-> r.saved, saveErr |-> r.saveErr,
                        saves |-> r.saves, FinalMSG |-> r.FinalMSG]
    /\ ncalls' = ncalls + 1
    /\ UNCHANGED <<FileLog, now, pc, exitStatus, panicValue, lastSet,
                   DefaultSaveToFile, DefaultLogPath, writers>>

InfoMain == LogMain("InfoMain", INFO)

WarnMain == LogMain("WarnMain", WARN)

\* the records handed to saveToFile of part_004 when it is exercised alone
LineRecords == {j \in SinkRecords : j.Message = "b"}

\* saveToFile of part_004 on its own
SaveLineAt ==
    /\ pc = "run"
    /\ ncalls < MaxLines
    /\ \E jsoner \in LineRecords, path \in Paths, inj \in LineInjections :
         \E r \in {SaveLine(fs, dirs, jsoner, path, inj, TRUE)} :
            /\ fs' = r.fs
            /\ dirs' = r.dirs
            /\ okRecs' = OkRecsAfter(TRUE, path, r.err, jsoner)
            /\ clean' = CleanAfter(TRUE, path, r.err, r.fs)
            /\ last' = [kind |-> "saveLine", level |-> jsoner.Level, message |-> jsoner.Message,
                        path |-> path, pre |-> fs[path], inj |-> inj, saved |-> jsoner,
                        saveErr |-> r.err, saves |-> <<r.ops>>,
                        FinalMSG |-> FinalMSG(now, CheckMark, << >>)]
    /\ ncalls' = ncalls + 1
    /\ UNCHANGED <<FileLog, now, pc, exitStatus, panicValue, lastSet,
                   DefaultSaveToFile, DefaultLogPath, writers>>

NextLines ==
    \/ InfoMain
    \/ WarnMain
    \/ SaveLineAt

SpecLines == InitSink /\ [][NextLines]_vars

----------------------------------------------------------------------------
(* The variant with the SaveToFile and LogFilePath options                  *)
(* (src/unnamed/part_002): its logger, its logMessage and its array sink.   *)

LogOptions2(startTime, process, user, saveToFile, logFilePath) ==
    [StartTime |-> startTime, Process |-> process, User |-> user,
     SaveToFile |-> saveToFile, LogFilePath |-> logFilePath]

\* var opts LogOptions
ZeroOptions2 == LogOptions2(ZeroTime, "", "", FALSE, "")

OptsOf2(options) == IF Len(options) > 0 THEN options[1] ELSE ZeroOptions2

\* if opts.LogFilePath == "" { opts.LogFilePath = l.DefaultLogPath }
EffectiveLogPath(defaultLogPath, opts) ==
    IF opts.LogFilePath = "" THEN defaultLogPath ELSE opts.LogFilePath

\* if opts.SaveToFile: the option of the call alone decides, logMessage never
\* reads l.DefaultSaveToFile
ShouldSaveToFile2(defaultSaveToFile, opts) == opts.SaveToFile

RECURSIVE IndentFields2(_, _)
IndentFields2(fields, i) ==
    IF i > Len(fields) THEN << >>
    ELSE <<NL, WS("  "), Key(fields[i][1]), WS(" "), Str(fields[i][2])>>
         \o (IF i < Len(fields) THEN <<P(",")>> ELSE << >>)
         \o IndentFields2(fields, i + 1)

\* json.MarshalIndent(jsoner, "", "  ")
MarshalIndent2(j) == <<P("{")>> \o IndentFields2(MarshalFields(j), 1) \o <<NL, P("}")>>

\* the text a new file is started with: "[\n"
ArrayStart2 == <<P("["), NL>>

\* stat.Size() > 2: the file is taken to hold at least "[\n" and a record
HasRecords2(size) == size > 2

\* the failures of this variant: a failing write writes nothing, and
\* Seek(0, io.SeekEnd) on a regular file does not fail
Injections2 == {inj \in Injections : inj.n = 0 /\ inj.at # "seek"}

\* saveToFile of part_002; every write follows a Seek(0, io.SeekEnd) or a
\* truncation made through the same descriptor, so it lands on the end of
\* the file; the failure "write" is the failure of file.Write(jsonData)
SaveToFile2(f, d, jsoner, path, inj) ==
    LET dir == Dir(path) IN
    IF ~Creatable(dir) \/ inj.at = "mkdir"
    THEN SaveResult(f, d, "mkdir " \o dir \o ": permission denied", <<"MkdirAll">>)
    ELSE
    LET d1 == d \cup {dir}
        existed == fileExists(f, path)
        ops1 == IF existed THEN <<"MkdirAll">> ELSE <<"MkdirAll", "Create">>
    IN
    IF ~existed /\ inj.at = "create"
    THEN SaveResult(f, d1, "open " \o path \o ": permission denied", ops1)
    ELSE
    LET f1 == IF existed THEN f ELSE [f EXCEPT ![path] = [exists |-> TRUE, data |-> ArrayStart2]]
        ops2 == (IF existed THEN ops1 ELSE Append(ops1, "WriteString")) \o <<"OpenFile">>
    IN
    IF inj.at = "open"
    THEN SaveResult(f1, d1, "open " \o path \o ": too many open files", ops2)
    ELSE
    LET ops3 == Append(ops2, "Stat") IN
    IF inj.at = "stat"
    THEN SaveResult(f1, d1, "stat " \o path \o ": input/output error", ops3)
    ELSE
    LET size == Len(f1[path].data)
        jsonData == MarshalIndent2(jsoner)
        more == HasRecords2(size)
    IN
    IF more /\ inj.at = "truncate"
    THEN SaveResult(f1, d1, "truncate " \o path \o ": input/output error", Append(ops3, "Truncate"))
    ELSE
    LET f2 == IF more THEN Truncate(f1, path, size - 2) ELSE f1
        f3 == IF more THEN WriteAppend(f2, path, <<P(","), NL>>) ELSE f2
        ops5 == (IF more THEN ops3 \o <<"Truncate", "Seek", "WriteString">> ELSE ops3)
                \o <<"Seek", "Write">>
    IN
    IF inj.at = "write"
    THEN SaveResult(f3, d1, "write " \o path \o ": no space left on device", ops5)
    ELSE SaveResult(WriteAppend(WriteAppend(f3, path, jsonData), path, <<NL, P("]")>>), d1, "",
                    Append(ops5, "WriteString"))

\* logMessage of part_002
LogMessage2(defaultSaveToFile, defaultLogPath, f, d, level, message, options, currentTime, closingTime, inj) ==
    LET opts0 == OptsOf2(options)
        opts == [opts0 EXCEPT !.LogFilePath = EffectiveLogPath(defaultLogPath, opts0)]
        fmt == FormatParts(level, message, opts, currentTime, closingTime)
        shouldSave == ShouldSaveToFile2(defaultSaveToFile, opts)
        sv == IF shouldSave THEN SaveToFile2(f, d, fmt.jsoner, opts.LogFilePath, inj)
              ELSE SaveResult(f, d, "", << >>)
        failed == shouldSave /\ sv.err # ""
        parts == IF failed THEN Append(fmt.logParts, "Failed to save log") ELSE fmt.logParts
    IN [given |-> opts0,
        opts |-> opts,
        shouldSave |-> shouldSave,
        path |-> opts.LogFilePath,
        pre |-> f[opts.LogFilePath],
        saved |-> fmt.jsoner,
        saves |-> IF shouldSave THEN <<sv.ops>> ELSE << >>,
        saveErr |-> sv.err,
        FinalMSG |-> FinalMSG(closingTime, FinalMark(failed), parts),
        fs |-> sv.fs,
        dirs |-> sv.dirs]

\* the argument lists of the calls of this variant
CallOptions2 ==
    {<< >>}
    \cup {<<LogOptions2(ZeroTime, "", "", s, p)>> : s \in BOOLEAN, p \in {"", CustomPath}}
    \cup {<<LogOptions2(At(0), "MainProcess", "TestUser", TRUE, "")>>}

\* one call of an entry point of part_002
Log2(kind, level) ==
    /\ pc = "run"
    /\ ncalls < MaxOps2
    /\ \E options \in CallOptions2, inj \in Injections2 :
         /\ (inj = NoInjection \/ ShouldSaveToFile2(DefaultSaveToFile, OptsOf2(options)))
         /\ \E r \in {LogMessage2(DefaultSaveToFile, DefaultLogPath, fs, dirs, level, "a",
                                  options, now, now, inj)} :
               /\ fs' = r.fs
               /\ dirs' = r.dirs
               /\ okRecs' = OkRecsAfter(r.shouldSave, r.path, r.saveErr, r.saved)
               /\ clean' = CleanAfter(r.shouldSave, r.path, r.saveErr, r.fs)
               /\ last' = [kind |-> kind, level |-> level, message |-> "a", given |-> r.given,
                           opts |-> r.opts, shouldSave |-> r.shouldSave, path |-> r.path,
                           pre |-> r.pre, inj |-> inj, saved |-> r.saved, saveErr |-> r.saveErr,
                           saves |-> r.saves, FinalMSG |-> r.FinalMSG,
                           DefaultSaveToFile |-> DefaultSaveToFile,
                           DefaultLogPath |-> DefaultLogPath]
    /\ ncalls' = ncalls + 1
    /\ UNCHANGED <<FileLog, now, pc, exitStatus, panicValue, lastSet,
                   DefaultSaveToFile, DefaultLogPath, writers>>

Info2 == Log2("Info2", INFO)

Warn2 == Log2("Warn2", WARN)

\* log.DefaultSaveToFile = b: the field is exported and the caller assigns it
AssignDefaultSaveToFile ==
    /\ pc = "run"
    /\ ncalls < MaxOps2
    /\ \E b \in BOOLEAN :
         /\ DefaultSaveToFile' = b
         /\ last' = [kind |-> "DefaultSaveToFile", value |-> b]
    /\ ncalls' = ncalls + 1
    /\ UNCHANGED <<FileLog, fs, dirs, now, pc, okRecs, clean, exitStatus, panicValue, lastSet,
                   DefaultLogPath, writers>>

\* log.DefaultLogPath = path
AssignDefaultLogPath ==
    /\ pc = "run"
    /\ ncalls < MaxOps2
    /\ \E path \in {DefaultPath, CustomPath} :
         /\ DefaultLogPath' = path
         /\ last' = [kind |-> "DefaultLogPath", value |-> path]
    /\ ncalls' = ncalls + 1
    /\ UNCHANGED <<FileLog, fs, dirs, now, pc, okRecs, clean, exitStatus, panicValue, lastSet,
                   DefaultSaveToFile, writers>>

NextArray2 ==
    \/ Info2
    \/ Warn2
    \/ AssignDefaultSaveToFile
    \/ AssignDefaultLogPath

SpecArray2 == InitSink /\ [][NextArray2]_vars

----------------------------------------------------------------------------
(* Two callers inside saveToFile of part_001 on the same path at once: the  *)
(* function takes no lock, so the system calls of the two interleave.  Each *)
(* writer has its own descriptor (its own offset) and its own stat result.  *)

\* a zero byte: what the file system puts where nothing was written
NUL == Tok("nul", "")

\* the data grown with zero bytes up to len
Padded(data, len) == data \o [i \in 1..(len - Len(data)) |-> NUL]

\* file.Truncate(size) on a file another writer may have made shorter: the
\* file is cut or grown to size
TruncateTo(f, path, size) ==
    IF size <= Len(f[path].data) THEN Truncate(f, path, size)
    ELSE [f EXCEPT ![path].data = Padded(@, size)]

\* a write at an offset another writer's truncation may have left beyond the
\* end of the file
WriteAtSparse(f, path, off, out) ==
    WriteAt([f EXCEPT ![path].data = Padded(@, off)], path, off, out)

SeekStart(len, offset) == 0

\* file.Seek(offset, io.SeekEnd): the new offset, counted from the length the
\* file has when the call is made
SeekEnd(len, offset) == len + offset

\* the step is taken while the other writer is inside saveToFile
Overlaps(w) == \E v \in Writers \ {w} : writers[v].pc # "idle"

RaceLast(w) ==
    [kind |-> "race", writer |-> w,
     overlapped |-> (last.kind = "race" /\ last.overlapped) \/ Overlaps(w)]

\* saveToFile is entered: MkdirAll of a directory that exists
RaceBegin(w) ==
    /\ writers[w].pc = "idle"
    /\ writers[w].calls < MaxRaceCalls
    /\ \E jsoner \in RaceRecords(w) :
         writers' = [writers EXCEPT ![w] = [@ EXCEPT !.pc = "exists", !.jsoner = jsoner, !.err = ""]]
    /\ dirs' = dirs \cup {Dir(RacePath)}
    /\ last' = RaceLast(w)
    /\ UNCHANGED <<FileLog, fs, now, pc, okRecs, clean, exitStatus, panicValue, lastSet, ncalls,
                   DefaultSaveToFile, DefaultLogPath>>

\* if !fileExists(filePath)
RaceExists(w) ==
    /\ writers[w].pc = "exists"
    /\ writers' = [writers EXCEPT ![w].pc = IF fileExists(fs, RacePath) THEN "open" ELSE "create"]
    /\ last' = RaceLast(w)
    /\ UNCHANGED <<FileLog, fs, dirs, now, pc, okRecs, clean, exitStatus, panicValue, lastSet,
                   ncalls, DefaultSaveToFile, DefaultLogPath>>

\* os.Create(filePath): the file is created, or cut to zero bytes when another
\* writer has created it meanwhile
RaceCreate(w) ==
    /\ writers[w].pc = "create"
    /\ fs' = [fs EXCEPT ![RacePath] = EmptyFile]
    /\ writers' = [writers EXCEPT ![w].pc = "open"]
    /\ last' = RaceLast(w)
    /\ UNCHANGED <<FileLog, dirs, now, pc, okRecs, clean, exitStatus, panicValue, lastSet,
                   ncalls, DefaultSaveToFile, DefaultLogPath>>

\* os.OpenFile and file.Stat: the descriptor starts at offset 0; the open
\* reads nothing another writer changes, so it is one step with the stat
RaceStat(w) ==
    /\ writers[w].pc = "open"
    /\ LET size == Len(fs[RacePath].data) IN
       writers' = [writers EXCEPT ![w] =
                      [@ EXCEPT !.pc = IF TakesInitialBranch(size) THEN "initial" ELSE "truncate",
                                !.size = size, !.off = 0]]
    /\ last' = RaceLast(w)
    /\ UNCHANGED <<FileLog, fs, dirs, now, pc, okRecs, clean, exitStatus, panicValue, lastSet,
                   ncalls, DefaultSaveToFile, DefaultLogPath>>

\* saveToFile returns err ("" for nil)
RaceReturn(w, err, f) ==
    /\ writers' = [writers EXCEPT ![w] = IdleWriter(@.jsoner, @.calls + 1, err)]
    /\ okRecs' = OkRecsAfter(TRUE, RacePath, err, writers[w].jsoner)
    /\ clean' = CleanAfter(TRUE, RacePath, err, f)
    /\ last' = RaceLast(w)

\* the write of the initial branch, at the descriptor's offset 0
RaceInitialWrite(w) ==
    /\ writers[w].pc = "initial"
    /\ fs' = WriteAtSparse(fs, RacePath, writers[w].off,
                           InitialText(MarshalIndent(writers[w].jsoner)))
    /\ RaceReturn(w, "", fs')
    /\ UNCHANGED <<FileLog, dirs, now, pc, exitStatus, panicValue, lastSet, ncalls,
                   DefaultSaveToFile, DefaultLogPath>>

\* file.Truncate(stat.Size() - 1), with the size the stat returned
RaceTruncate(w) ==
    /\ writers[w].pc = "truncate"
    /\ fs' = TruncateTo(fs, RacePath, writers[w].size - 1)
    /\ writers' = [writers EXCEPT ![w].pc = "seek"]
    /\ last' = RaceLast(w)
    /\ UNCHANGED <<FileLog, dirs, now, pc, okRecs, clean, exitStatus, panicValue, lastSet,
                   ncalls, DefaultSaveToFile, DefaultLogPath>>

\* file.Seek(-1, io.SeekEnd); a negative offset is an error
RaceSeek(w) ==
    /\ writers[w].pc = "seek"
    /\ LET off == SeekEnd(Len(fs[RacePath].data), -1) IN
       IF off < 0
       THEN RaceReturn(w, "seek failed, seek " \o RacePath \o ": invalid argument", fs)
       ELSE /\ writers' = [writers EXCEPT ![w] = [@ EXCEPT !.pc = "write", !.off = off]]
            /\ last' = RaceLast(w)
            /\ UNCHANGED <<okRecs, clean>>
    /\ UNCHANGED <<FileLog, fs, dirs, now, pc, exitStatus, panicValue, lastSet, ncalls,
                   DefaultSaveToFile, DefaultLogPath>>

\* the write of the append branch, at the offset the seek returned
RaceWrite(w) ==
    /\ writers[w].pc = "write"
    /\ fs' = WriteAtSparse(fs, RacePath, writers[w].off,
                           AppendText(MarshalIndent(writers[w].jsoner)))
    /\ RaceReturn(w, "", fs')
    /\ UNCHANGED <<FileLog, dirs, now, pc, exitStatus, panicValue, lastSet, ncalls,
                   DefaultSaveToFile, DefaultLogPath>>

\* the next system call of writer w
RaceStep(w) ==
    \/ RaceExists(w)
    \/ RaceCreate(w)
    \/ RaceStat(w)
    \/ RaceInitialWrite(w)
    \/ RaceTruncate(w)
    \/ RaceSeek(w)
    \/ RaceWrite(w)

NextRace ==
    \E w \in Writers :
        \/ RaceBegin(w)
        \/ RaceStep(w)

SpecRace == Init /\ [][NextRace]_vars

----------------------------------------------------------------------------
(* Vocabulary of the properties                                             *)

Has(seq, x) == \E i \in 1..Len(seq) : seq[i] = x

Count(seq, x) == Cardinality({i \in 1..Len(seq) : seq[i] = x})

RECURSIVE SumLens(_, _)
SumLens(recs, i) == IF i > Len(recs) THEN 0 ELSE Len(recs[i]) + SumLens(recs, i + 1)

IsLog == last.kind \in {"Info", "Warn", "Fatal", "Panic", "Recover"}

\* the file at path is one JSON array that holds exactly recs, in order
HoldsExactly(path, recs) ==
    LET data == fs[path].data IN
    /\ fs[path].exists
    /\ Len(data) >= 2
    /\ data[1] = P("[")
    /\ data[Len(data)] = P("]")
    /\ ParseArray(data) = [ok |-> TRUE, recs |-> recs]
    \* one comma between two fields of a record and one between two records
    /\ Count(data, P(",")) = (SumLens(recs, 1) - Len(recs)) + (Len(recs) - 1)

----------------------------------------------------------------------------
(* C1: starting from a path where no file exists, after N >= 1 successful  *)
(* sequential appends the file is a single well-formed JSON array (opens    *)
(* with '[', closes with ']', one comma between records) that holds exactly *)
(* the N records in call order.                                             *)

C1_ArrayHoldsAppendsInOrder ==
    \A p \in Paths :
        (clean[p] /\ Len(okRecs[p]) >= 1) => HoldsExactly(p, okRecs[p])

C1_Witness ==
    \E p \in Paths :
        /\ clean[p]
        /\ Len(okRecs[p]) >= 3
        /\ okRecs[p][1] # okRecs[p][2]
        /\ okRecs[p][2] # okRecs[p][3]

(* C2: when the target file exists with zero bytes, saveToFile writes the   *)
(* opening bracket, the record and the closing bracket with no leading      *)
(* comma, so the file is a valid one-element array; the truncate/seek path  *)
(* is taken only when the size is greater than zero.                        *)

C2_EmptyFileGetsOneElementArray ==
    last.kind = "saveToFile" =>
        LET wasEmpty == last.pre.exists /\ Len(last.pre.data) = 0
            data == fs[last.path].data
            ops == last.saves[1]
        IN /\ (wasEmpty /\ last.inj = NoInjection /\ Creatable(Dir(last.path)))
                  => last.saveErr = ""
           /\ (wasEmpty /\ last.saveErr = "")
                  => /\ data = <<P("["), NL, WS("  ")>> \o MarshalIndent(last.saved) \o <<NL, P("]")>>
                     /\ HoldsExactly(last.path, <<MarshalFields(last.saved)>>)
                     /\ ~Has(ops, "Truncate") /\ ~Has(ops, "Seek")
           /\ (Has(ops, "Truncate") \/ Has(ops, "Seek")) => Len(last.pre.data) > 0

C2_Witness ==
    /\ last.kind = "saveToFile"
    /\ last.pre.exists
    /\ Len(last.pre.data) = 0
    /\ last.saveErr = ""
    /\ fs[last.path].data # << >>

(* C3: Info and Warn return normally to the caller; Fatal never returns and *)
(* ends the process with exit status 1; Panic never returns normally and    *)
(* raises a panic.  The terminal action of Fatal and Panic comes only after *)
(* the log call has completed (final line set, the append attempted if one  *)
(* was requested) and comes whether the append succeeded, failed or was not *)
(* requested.                                                               *)

LogCompleted ==
    /\ Has(last.FinalMSG.parts, last.message)
    /\ last.FinalMSG.mark \in {CheckMark, CrossMark}
    /\ Len(last.saves) = (IF last.shouldSave THEN 1 ELSE 0)

C3_EntryPointsTerminate ==
    /\ last.kind \in {"Info", "Warn"}
          => (pc = "run" /\ exitStatus = -1 /\ panicValue = "" /\ LogCompleted)
    /\ last.kind = "Fatal" => (pc \in {"fatal_logged", "exited"} /\ LogCompleted)
    /\ last.kind = "Panic" => (pc \in {"panic_logged", "panicking", "exited"} /\ LogCompleted)
    /\ pc = "fatal_logged" => (last.kind = "Fatal" /\ exitStatus = -1 /\ ENABLED FatalExit)
    /\ pc = "panic_logged" => (last.kind = "Panic" /\ panicValue = "" /\ ENABLED PanicRaise)
    /\ (pc = "exited" /\ last.kind = "Fatal") => exitStatus = 1
    /\ exitStatus = 1 => (pc = "exited" /\ last.kind = "Fatal")
    /\ pc = "panicking" => (last.kind = "Panic" /\ panicValue # "")

C3_Witness ==
    /\ pc = "exited"
    /\ exitStatus = 1
    /\ last.kind = "Fatal"
    /\ last.shouldSave
    /\ last.saveErr # ""

(* C4: Panic raises a panic whose value is exactly the message of the call, *)
(* after the PANIC record has been appended to the requested file; an       *)
(* enclosing recover handler catches it, and a log call made in the handler *)
(* on the same logger is formatted and appended to its own target file like *)
(* any other call.                                                          *)

\* the latest call asked for an append and saveToFile returned nil
Appended == last.shouldSave /\ last.saveErr = ""

\* the record of the latest call is the newest record of its target file
NewestRecordOnFile ==
    LET recs == okRecs[last.path] IN
    /\ Len(recs) >= 1
    /\ recs[Len(recs)] = MarshalFields(last.saved)
    /\ clean[last.path] => HoldsExactly(last.path, recs)

C4_PanicCarriesMessageAfterAppend ==
    /\ pc = "panicking"
          => /\ last.kind = "Panic"
             /\ panicValue = last.message
             /\ LogCompleted
             /\ Appended => (NewestRecordOnFile /\ last.saved.Level = PANIC)
    /\ last.kind = "Recover"
          => /\ last.recovered \in Messages
             /\ pc = "run"
             /\ panicValue = ""
             /\ exitStatus = -1
             /\ LogCompleted
             /\ Appended => (NewestRecordOnFile /\ last.saved.Level = INFO
                             /\ last.saved.Message = last.message)

C4_Witness ==
    /\ last.kind = "Recover"
    /\ last.recovered = "b"
    /\ Appended
    /\ last.path = CustomPath
    /\ Len(okRecs[DefaultPath]) = 1
    /\ okRecs[DefaultPath][1][2] = <<"level", PANIC>>

(* C5: the display parts are, in this order, the bracketed level, the       *)
(* process (iff Process is non-empty), the duration (iff StartTime is       *)
(* non-zero), the user (iff User is non-empty) and the message, which is    *)
(* last before any status text; parts are joined with " | ".  A non-empty   *)
(* Process directly follows the level in the display line and the record.   *)

ExpectedParts ==
    <<LevelPart(last.jsoner.Level)>>
    \o (IF last.opts.Process # "" THEN <<last.opts.Process>> ELSE << >>)
    \o (IF ~last.opts.StartTime.zero THEN <<last.jsoner.Duration>> ELSE << >>)
    \o (IF last.opts.User # "" THEN <<last.opts.User>> ELSE << >>)
    \o <<last.message>>

C5_PartsInOrder ==
    IsLog =>
        LET parts == last.FinalMSG.parts
            base == ExpectedParts
            head == last.FinalMSG.time \o last.FinalMSG.mark
            fields == MarshalFields(last.saved)
        IN /\ Len(base) <= Len(parts)
           /\ Len(parts) <= Len(base) + 1
           /\ SubSeq(parts, 1, Len(base)) = base
           /\ last.jsoner.Level \in Levels
           /\ Len(parts) = 1 => last.FinalMSG.text = head \o parts[1] \o "\n"
           /\ Len(parts) = 2 => last.FinalMSG.text = head \o parts[1] \o " | " \o parts[2] \o "\n"
           /\ Len(parts) = 3
                 => last.FinalMSG.text
                      = head \o parts[1] \o " | " \o parts[2] \o " | " \o parts[3] \o "\n"
           /\ fields[2][1] = "level"
           /\ last.opts.Process # ""
                 => /\ parts[2] = last.opts.Process
                    /\ fields[3] = <<"process", last.opts.Process>>
                    /\ Appended => ParseArray(fs[last.path].data).recs[1][3]
                                      = <<"process", last.opts.Process>>

C5_Witness ==
    /\ IsLog
    /\ last.opts.Process # ""
    /\ ~last.opts.StartTime.zero
    /\ last.opts.User # ""
    /\ Appended
    /\ Len(last.FinalMSG.parts) = 6

(* C6: the record always contains time, level and message, and contains     *)
(* process, duration or user exactly when Process is non-empty, StartTime   *)
(* is non-zero or User is non-empty; an omitted field is absent, not null   *)
(* or empty.  With no options, or all-empty options, the record has only    *)
(* time, level and message.                                                 *)

KeysOf(fields) == {fields[i][1] : i \in 1..Len(fields)}

C6_RecordFields ==
    IsLog =>
        LET fields == MarshalFields(last.saved)
            keys == KeysOf(fields)
        IN /\ {"time", "level", "message"} \subseteq keys
           /\ keys \subseteq {"time", "level", "process", "duration", "user", "message"}
           /\ Cardinality(keys) = Len(fields)
           /\ ("process" \in keys) <=> (last.opts.Process # "")
           /\ ("duration" \in keys) <=> (~last.opts.StartTime.zero)
           /\ ("user" \in keys) <=> (last.opts.User # "")
           /\ \A i \in 1..Len(fields) : fields[i][1] # "message" => fields[i][2] # ""
           /\ (last.opts.Process = "" /\ last.opts.StartTime.zero /\ last.opts.User = "")
                 => fields = << <<"time", FormatTime(last.closingTime)>>,
                                <<"level", last.level>>, <<"message", last.message>> >>
           /\ Appended => HoldsExactly(last.path, <<fields>>)

C6_Witness ==
    /\ IsLog
    /\ last.opts.Process = ""
    /\ ~last.opts.StartTime.zero
    /\ last.opts.User # ""
    /\ last.message = ""
    /\ Appended

(* C7: whenever StartTime is non-zero, the duration shown in the display    *)
(* line and stored in the record equals (closing_time - start_time) in      *)
(* whole milliseconds, closing_time being the instant written into the      *)
(* record's time field and the final line; it is non-negative when          *)
(* start_time <= now.                                                       *)

MsRange == ((MaxTick * TickStep) \div UsPerMs) + 1

\* d microseconds in whole milliseconds, the fraction dropped
WholeMs(d) ==
    CHOOSE n \in (0 - MsRange)..MsRange :
        \/ d >= 0 /\ n >= 0 /\ n * UsPerMs <= d /\ d < (n + 1) * UsPerMs
        \/ d < 0 /\ n <= 0 /\ (0 - n) * UsPerMs <= (0 - d) /\ (0 - d) < (1 - n) * UsPerMs

DurationShownAndStored(text) ==
    /\ last.jsoner.Duration = text
    /\ Has(last.FinalMSG.parts, text)
    /\ last.jsoner.ClosingTime = FormatTime(last.closingTime)
    /\ last.FinalMSG.time = FormatTime(last.closingTime)

\* the claim as stated: the duration is measured up to the closing time
C7_DurationToClosingTime ==
    (IsLog /\ ~last.opts.StartTime.zero) =>
        DurationShownAndStored(
            ToString(WholeMs(last.closingTime - last.opts.StartTime.at)) \o " ms")

\* amended: the duration is measured up to the instant read when the duration
\* part is built, which is not later than the closing time
C7_DurationToCurrentTime ==
    (IsLog /\ ~last.opts.StartTime.zero) =>
        /\ DurationShownAndStored(
               ToString(WholeMs(last.currentTime - last.opts.StartTime.at)) \o " ms")
        /\ last.currentTime <= last.closingTime
        /\ last.opts.StartTime.at <= last.currentTime
              => WholeMs(last.currentTime - last.opts.StartTime.at) >= 0

C7_Witness ==
    /\ IsLog
    /\ ~last.opts.StartTime.zero
    /\ last.opts.StartTime.at < last.currentTime
    /\ last.currentTime < last.closingTime
    /\ last.jsoner.Duration # "0 ms"

(* C8: when saveToFile returns an error, Info and Warn still return         *)
(* normally, the final display line still contains the message and has the  *)
(* error text appended as an extra part, and the append is attempted        *)
(* exactly once for that call.                                              *)

C8_SinkFailureContained ==
    (last.kind \in {"Info", "Warn"} /\ last.shouldSave /\ last.saveErr # "") =>
        LET parts == last.FinalMSG.parts IN
        /\ pc = "run"
        /\ exitStatus = -1
        /\ panicValue = ""
        /\ Len(parts) >= 3
        /\ parts[Len(parts)] = "Error: " \o last.saveErr
        /\ parts[Len(parts) - 1] = last.message
        /\ Count(parts, last.message) = 1
        /\ Len(last.saves) = 1
        /\ Count(last.saves[1], "MkdirAll") = 1
        /\ Count(last.saves[1], "WriteString") <= 1

C8_Witness ==
    /\ last.kind = "Warn"
    /\ last.shouldSave
    /\ last.saveErr # ""
    /\ Has(last.saves[1], "Seek")
    /\ pc = "run"

(* C9: an INFO call whose requested append fails is shown as WARN in the    *)
(* final display line; a failed append leaves the level of a WARN, FATAL or *)
(* PANIC call unchanged, and an INFO call whose append succeeds or is not   *)
(* requested is shown as INFO.                                              *)

C9_InfoShownAsWarnOnFailure ==
    IsLog =>
        LET failed == last.shouldSave /\ last.saveErr # "" IN
        last.FinalMSG.parts[1]
            = " [" \o (IF failed /\ last.level = INFO THEN WARN ELSE last.level) \o "]"

C9_Witness ==
    /\ last.kind = "Info"
    /\ last.shouldSave
    /\ last.saveErr # ""
    /\ last.FinalMSG.parts[1] = " [WARN]"

(* C10: a call whose options set FileLog uses that setting for that call    *)
(* only; no log call changes the logger's default, only SetDefaultFileLog   *)
(* does, so a call without a FileLog option uses the value given to the     *)
(* most recent SetDefaultFileLog (false if there was none), whatever        *)
(* overrides earlier calls used.                                            *)

C10_OverrideIsPerCall ==
    /\ FileLog = lastSet
    /\ IsLog =>
          LET used == IF last.opts.FileLog # NilV THEN last.opts.FileLog ELSE lastSet IN
          /\ last.setting = used
          /\ last.shouldSave = (used = BoolV(TRUE) \/ (used.t = "string" /\ used.s # ""))
          /\ last.shouldSave => last.path = (IF used.t = "string" THEN used.s ELSE DefaultPath)

C10_Witness ==
    /\ IsLog
    /\ last.opts.FileLog = NilV
    /\ lastSet = StrV(CustomPath)
    /\ Len(okRecs[DefaultPath]) = 1
    /\ last.path = CustomPath
    /\ Appended

(* C11: checkSaveLogOption resolves a FileLog setting of true to saving at  *)
(* "./log.json" and a non-empty string to saving at exactly that path;      *)
(* false and the empty string save nothing.  New() sets the default to      *)
(* false, so a call without a FileLog option on a fresh logger creates or   *)
(* modifies no file.                                                        *)

\* the step is a log call
LogStep == ncalls' = ncalls + 1 /\ last'.kind \in {"Info", "Warn", "Fatal", "Panic", "Recover"}

C11_Resolution ==
    /\ ncalls = 0 => FileLog = BoolV(FALSE)
    /\ IsLog =>
          /\ last.setting = BoolV(TRUE)
                => (last.shouldSave /\ last.path = "./log.json" /\ Len(last.saves) = 1)
          /\ (last.setting.t = "string" /\ last.setting.s # "")
                => (last.shouldSave /\ last.path = last.setting.s /\ Len(last.saves) = 1)
          /\ last.setting \in {BoolV(FALSE), StrV("")}
                => (~last.shouldSave /\ last.saves = << >> /\ last.checkErr = "")
          /\ (last.shouldSave /\ Creatable(Dir(last.path)))
                => (Appended /\ NewestRecordOnFile)

C11_NothingSavedLeavesFiles ==
    /\ (LogStep /\ last'.setting \in {BoolV(FALSE), StrV("")})
          => (fs' = fs /\ dirs' = dirs /\ okRecs' = okRecs)
    /\ (LogStep /\ FileLog = BoolV(FALSE) /\ last'.opts.FileLog = NilV)
          => (fs' = fs /\ dirs' = dirs)

C11_SettingResolved == []C11_Resolution /\ [][C11_NothingSavedLeavesFiles]_vars

C11_Witness ==
    /\ IsLog
    /\ last.setting = StrV("")
    /\ last.opts.FileLog = NilV
    /\ Len(okRecs[DefaultPath]) = 1
    /\ HoldsExactly(DefaultPath, okRecs[DefaultPath])
    /\ ~fs[CustomPath].exists

(* C12: every log call ends with exactly one final line; after the          *)
(* timestamp it begins with the failure marker x when a file append was     *)
(* attempted and failed, and with the check mark when the append succeeded  *)
(* or no append was requested.                                              *)

C12_FinalLineMarker ==
    IsLog =>
        LET attempted == Len(last.saves) = 1 IN
        /\ last.FinalMSG.text
              = FormatTime(last.closingTime) \o last.FinalMSG.mark
                  \o Join(last.FinalMSG.parts, " | ") \o "\n"
        /\ last.FinalMSG.mark = last.marks[Len(last.marks)]
        /\ last.FinalMSG.mark \in {CrossMark, CheckMark}
        /\ attempted = last.shouldSave
        /\ (attempted /\ last.saveErr # "") => last.FinalMSG.mark = CrossMark
        /\ (attempted /\ last.saveErr = "") => last.FinalMSG.mark = CheckMark
        /\ last.setting \in {BoolV(FALSE), StrV("")} => last.FinalMSG.mark = CheckMark
        /\ last.FinalMSG.mark = CrossMark => (attempted /\ last.saveErr # "")

C12_Witness ==
    /\ last.kind = "Fatal"
    /\ Len(last.saves) = 1
    /\ Has(last.saves[1], "WriteString")
    /\ last.saveErr # ""
    /\ last.FinalMSG.mark = CrossMark

(* C13: when the effective FileLog setting is neither a bool nor a string   *)
(* (a number, or nil given to SetDefaultFileLog), the call appends nothing  *)
(* and its final line begins with the failure marker x and carries the      *)
(* invalid-setting error text.                                              *)

InvalidSetting == IsLog /\ last.setting.t \notin {"bool", "string"}

C13_InvalidSettingShownAsFailure ==
    InvalidSetting =>
        /\ last.saves = << >>
        /\ Has(last.FinalMSG.parts, "Error: " \o last.checkErr)
        /\ last.FinalMSG.mark = CrossMark

\* what the code does with an invalid setting: the x is assigned and then
\* replaced, the error text stays
C13_InvalidSettingShownAsSuccess ==
    InvalidSetting =>
        /\ last.saves = << >>
        /\ last.checkErr
             = "log will not be saved, invalid file log setting type: "
                 \o (IF last.setting = NilV THEN "<nil>" ELSE "int") \o ", expected bool or string"
        /\ last.FinalMSG.parts[Len(last.FinalMSG.parts)] = "Error: " \o last.checkErr
        /\ last.marks = <<CrossMark, CheckMark>>
        /\ last.FinalMSG.mark = CheckMark

C13_Witness ==
    /\ InvalidSetting
    /\ last.setting = NilV
    /\ last.opts.FileLog = NilV
    /\ lastSet = NilV

(* C15: if an append to a non-empty array stops after the truncate and      *)
(* before the rewrite completes (a crash, or a seek or write error), the    *)
(* file is left without its closing bracket and is not a valid JSON array;  *)
(* an append that reports an error does not guarantee the file content is   *)
(* unchanged.                                                               *)

\* the latest saveToFile found a non-empty valid array, truncated it and then
\* returned an error
StoppedAfterTruncate ==
    /\ last.kind = "saveToFile"
    /\ last.saveErr # ""
    /\ Has(last.saves[1], "Truncate")
    /\ last.inj.at # "truncate"
    /\ Len(last.pre.data) > 0
    /\ last.pre.data[Len(last.pre.data)] = P("]")
    /\ ParseArray(last.pre.data).ok

C15_PartialFailureBreaksArray ==
    StoppedAfterTruncate =>
        LET data == fs[last.path].data IN
        /\ last.inj.at \in {"seek", "write"}
        /\ Has(last.saves[1], "Seek")
        /\ data # last.pre.data
        /\ ~Has(data, P("]"))
        /\ ~ParseArray(data).ok
        /\ SubSeq(data, 1, Len(last.pre.data) - 2) = SubSeq(last.pre.data, 1, Len(last.pre.data) - 2)

C15_Witness ==
    /\ StoppedAfterTruncate
    /\ last.inj = [at |-> "write", n |-> 1]
    /\ Len(ParseArray(last.pre.data).recs) = 2
    /\ fs[last.path].data[Len(fs[last.path].data)] = P(",")

(* C19: every record that reaches a log file carries the level of the       *)
(* entry point that was called; the INFO-to-WARN rewrite happens only after *)
(* the append has failed, so no file ever contains a record whose level was *)
(* downgraded, and the displayed level can differ from the call's level     *)
(* only for calls that persisted nothing.                                   *)

\* the level the entry point passes to logMessage
EntryLevel(kind) ==
    CASE kind = "Warn" -> "WARN"
      [] kind = "Fatal" -> "FATAL"
      [] kind = "Panic" -> "PANIC"
      [] OTHER -> "INFO"

\* the level fields of the records in the file at path, in file order
LevelsOnFile(path) ==
    LET data == fs[path].data
        at == SelectSeq([i \in 1..Len(data) |-> i],
                        LAMBDA i : data[i] = Key("level") /\ i + 2 <= Len(data))
    IN [k \in 1..Len(at) |-> data[at[k] + 2].v]

C19_PersistedLevelIsCallLevel ==
    IsLog =>
        LET recs == okRecs[last.path]
            shown == last.FinalMSG.parts[1]
        IN /\ last.level = EntryLevel(last.kind)
           /\ last.saved.Level = EntryLevel(last.kind)
           /\ Appended
                 => /\ recs[Len(recs)][2] = <<"level", EntryLevel(last.kind)>>
                    /\ LevelsOnFile(last.path)[Len(LevelsOnFile(last.path))] = EntryLevel(last.kind)
                    /\ shown = " [" \o EntryLevel(last.kind) \o "]"
                    /\ last.jsoner.Level = EntryLevel(last.kind)
           /\ shown # " [" \o EntryLevel(last.kind) \o "]"
                 => /\ last.shouldSave
                    /\ last.saveErr # ""
                    /\ last.kind \in {"Info", "Recover"}
                    /\ shown = " [WARN]"
           \* the levels on a file are those of the records appended to it, each
           \* of which was the level of its call when it was appended
           /\ \A p \in Paths :
                 (clean[p] /\ fs[p].exists)
                    => LevelsOnFile(p) = [k \in 1..Len(okRecs[p]) |-> okRecs[p][k][2][2]]

C19_Witness ==
    /\ last.kind = "Info"
    /\ last.shouldSave
    /\ last.saveErr # ""
    /\ last.FinalMSG.parts[1] = " [WARN]"
    /\ last.jsoner.Level = WARN
    /\ LevelsOnFile(last.path) = <<"INFO">>
    /\ okRecs[last.path] = <<MarshalFields(last.saved)>>

(* C14: saveToFile holds no lock, so two callers appending to the same path *)
(* at the same time can interleave their stat, truncate, seek and write     *)
(* steps and reach a state in which the file is no longer a valid JSON      *)
(* array, or in which a record whose append reported success is missing.    *)

AllIdle == \A w \in Writers : writers[w].pc = "idle"

NoCallOverlapped == ~(last.kind = "race" /\ last.overlapped)

\* every writer has returned nil from every call it made, and made one at least
AllReportedSuccess ==
    /\ AllIdle
    /\ \A w \in Writers : writers[w].calls >= 1 /\ writers[w].err = ""
    /\ clean[RacePath]

\* a writer inside saveToFile is never kept waiting by the other one, and the
\* file can only go wrong when two calls overlap: calls made one after the
\* other leave the array of their records
C14_NoLockOnlyOverlapCorrupts ==
    /\ \A w \in Writers : writers[w].pc # "idle" => ENABLED RaceStep(w)
    /\ \A w \in Writers :
          (writers[w].pc = "idle" /\ writers[w].calls < MaxRaceCalls) => ENABLED RaceBegin(w)
    /\ (AllIdle /\ NoCallOverlapped)
          => /\ \A w \in Writers : writers[w].err = ""
             /\ Len(okRecs[RacePath]) >= 1 => HoldsExactly(RacePath, okRecs[RacePath])
    /\ (AllReportedSuccess /\ ~HoldsExactly(RacePath, okRecs[RacePath])) => ~NoCallOverlapped

\* both appends reported success and the file is not a JSON array
C14_Witness ==
    /\ AllReportedSuccess
    /\ Len(okRecs[RacePath]) = Cardinality(Writers) * MaxRaceCalls
    /\ ~ParseArray(fs[RacePath].data).ok

\* both appends reported success, the file is a JSON array and a record is missing
C14_LostRecord ==
    /\ AllReportedSuccess
    /\ ParseArray(fs[RacePath].data).ok
    /\ \E i \in 1..Len(okRecs[RacePath]) :
          ~Has(ParseArray(fs[RacePath].data).recs, okRecs[RacePath][i])

(* C16: in the variants with the newline-delimited sink, each successful    *)
(* saveToFile appends exactly one line holding one compact JSON record at   *)
(* the end of the file, leaves every earlier byte unchanged and creates the *)
(* file if absent; after N sequential log calls on a fresh path the file    *)
(* holds exactly N lines in call order.                                     *)

\* reading a file line by line, each line one JSON object
RECURSIVE ReadLines(_, _, _)
ReadLines(t, i, acc) ==
    IF i > Len(t) THEN [ok |-> TRUE, recs |-> acc]
    ELSE IF t[i] # P("{") THEN ParseFail
    ELSE LET f == ParseFields(t, i + 1, << >>) IN
         IF ~f.ok \/ f.next > Len(t) \/ t[f.next] # NL THEN ParseFail
         ELSE ReadLines(t, f.next + 1, Append(acc, f.fields))

IsLineSave == last.kind \in {"InfoMain", "WarnMain", "saveLine"}

C16_OneLinePerAppend ==
    /\ IsLineSave =>
          /\ Len(last.saves) = 1
          /\ (last.inj = NoInjection /\ Creatable(Dir(last.path))) => last.saveErr = ""
          /\ last.kind \in {"InfoMain", "WarnMain"}
                => (last.path = DefaultPath /\ last.FinalMSG.mark = CheckMark
                    /\ last.saved.Level = last.level /\ last.saved.Message = last.message)
          /\ last.saveErr = ""
                => LET data == fs[last.path].data
                       n == Len(last.pre.data)
                   IN /\ fs[last.path].exists
                      /\ SubSeq(data, 1, n) = last.pre.data
                      /\ Count(SubSeq(data, n + 1, Len(data)), NL) = 1
                      /\ data[Len(data)] = NL
                      /\ ReadLines(SubSeq(data, n + 1, Len(data)), 1, << >>)
                            = [ok |-> TRUE, recs |-> <<MarshalFields(last.saved)>>]
                      /\ \A i \in (n + 1)..Len(data) : ~(data[i].t = "ws")
    /\ \A p \in Paths :
          clean[p] => /\ ReadLines(fs[p].data, 1, << >>) = [ok |-> TRUE, recs |-> okRecs[p]]
                      /\ Count(fs[p].data, NL) = Len(okRecs[p])
                      /\ fs[p].exists = (Len(okRecs[p]) >= 1)

C16_Witness ==
    /\ last.kind = "WarnMain"
    /\ clean[DefaultPath]
    /\ Len(okRecs[DefaultPath]) = 3
    /\ okRecs[DefaultPath][1] # okRecs[DefaultPath][2]
    /\ okRecs[DefaultPath][2] # okRecs[DefaultPath][3]
    /\ Count(fs[DefaultPath].data, NL) = 3

(* C17: in the variant with LogFilePath and SaveToFile, the logger carries  *)
(* defaults (DefaultLogPath, DefaultSaveToFile) that apply when a call's    *)
(* options leave them unset: with DefaultSaveToFile set to true, a call     *)
(* whose options leave SaveToFile unset appends to DefaultLogPath.          *)

IsLog2 == last.kind \in {"Info2", "Warn2"}

\* the latest call left SaveToFile and LogFilePath unset on a logger whose
\* DefaultSaveToFile is true
DefaultsLeftToApply ==
    /\ IsLog2
    /\ last.DefaultSaveToFile
    /\ ~last.given.SaveToFile
    /\ last.given.LogFilePath = ""

C17_DefaultSaveToFileApplies ==
    DefaultsLeftToApply =>
        /\ last.path = last.DefaultLogPath
        /\ Len(last.saves) = 1
        /\ last.inj = NoInjection
              => /\ last.saveErr = ""
                 /\ fs[last.DefaultLogPath].exists
                 /\ fs[last.DefaultLogPath].data # last.pre.data

\* what the code does: DefaultLogPath applies, DefaultSaveToFile is never read
C17_OnlyTheCallOptionSaves ==
    IsLog2 =>
        /\ last.path = (IF last.given.LogFilePath = "" THEN last.DefaultLogPath
                        ELSE last.given.LogFilePath)
        /\ last.shouldSave = last.given.SaveToFile
        /\ Len(last.saves) = (IF last.given.SaveToFile THEN 1 ELSE 0)

C17_Witness ==
    /\ DefaultsLeftToApply
    /\ last.DefaultLogPath = CustomPath
    /\ last.saves = << >>
    /\ ~fs[CustomPath].exists

(* C18: in that variant's array sink, appending to a file that exists with  *)
(* zero bytes writes '[', the record and ']' with no leading comma, so the  *)
(* file is a valid one-element array, and further appends keep it a valid   *)
(* array.                                                                   *)

C18_EmptyFileGetsValidArray ==
    (IsLog2 /\ last.shouldSave /\ last.saveErr = "") =>
        /\ (last.pre.exists /\ last.pre.data = << >>)
              => HoldsExactly(last.path, <<MarshalFields(last.saved)>>)
        /\ ParseArray(last.pre.data).ok
              => ParseArray(fs[last.path].data)
                    = [ok |-> TRUE,
                       recs |-> Append(ParseArray(last.pre.data).recs, MarshalFields(last.saved))]

\* what the code does: a file it creates itself becomes and stays the array of
\* the records appended; a file found with zero bytes gets no '['
C18_OnlyCreatedFilesGetArray ==
    /\ \A p \in Paths : (clean[p] /\ Len(okRecs[p]) >= 1) => HoldsExactly(p, okRecs[p])
    /\ (IsLog2 /\ last.shouldSave /\ last.saveErr = "" /\ last.pre.exists /\ last.pre.data = << >>)
          => /\ fs[last.path].data = MarshalIndent2(last.saved) \o <<NL, P("]")>>
             /\ ~ParseArray(fs[last.path].data).ok

C18_Witness ==
    /\ IsLog2
    /\ last.shouldSave
    /\ last.saveErr = ""
    /\ last.pre.exists
    /\ last.pre.data = << >>
    /\ fs[last.path].data[1] = P("{")
    /\ ~Has(fs[last.path].data, P("["))

====
